---- MODULE Spec2Model ----
(***************************************************************************)
(* MapMyFlight: the presentation coordinator (App.tsx), the animation      *)
(* engine (AnimatedPlane.tsx) and the capture session (App.tsx,            *)
(* startRecordingHandler) as one state machine.                            *)
(*                                                                         *)
(* One action is one task of the browser's event loop: the synchronous     *)
(* part of a handler (a click, a timer, a promise continuation, a frame    *)
(* callback, a media event), followed by React's re-render and the         *)
(* AnimatedPlane effect when one of its dependencies changed (Render).     *)
(*                                                                         *)
(* Environment (browser, Leaflet) behaviour the model relies on:           *)
(*  - L.Control.remove() takes the control off the map and leaves the      *)
(*    property map.zoomControl set; map.addControl() does not set it.      *)
(*  - MediaRecorder.stop() sets state to "inactive" at once and queues one *)
(*    task that fires dataavailable and then stop.                         *)
(*  - a recorder whose stream has no live track stops by itself;           *)
(*    MediaRecorder.start() on such a stream throws NotSupportedError.     *)
(*  - track.stop() fires no "ended" event; the user ending the share does. *)
(***************************************************************************)
EXTENDS Integers, Sequences, FiniteSets, TLC

\* ---------------------------------------------------------------- bounds
\* Waypoint ids offered by the search are 1..MaxLocations.
MaxLocations == 3
\* Invocations of startRecordingHandler in one behaviour of Spec.
MaxSessions == 1
\* Invocations of startRecordingHandler in one behaviour of SpecTwo.
MaxOverlappingSessions == 2
\* Fullscreen setups that can be in flight at the same time.
MaxFullscreen == 1
\* Longest interval between two frame callbacks, in half segment durations.
MaxFrameGap == 3

\* ------------------------------------------------------------- constants
DURATION_PER_SEGMENT_MS == 5000

NULL == -1

LocationIds == 1..MaxLocations
Sessions == 1..(IF MaxSessions > MaxOverlappingSessions THEN MaxSessions
               ELSE MaxOverlappingSessions)
FsSlots == 1..MaxFullscreen
FrameIds == 1..3
\* The clock is observed in steps of half a segment duration.
FrameGaps == {k * (DURATION_PER_SEGMENT_MS \div 2) : k \in 1..MaxFrameGap}

InteractionModes ==
  {"dragging", "touchZoom", "doubleClickZoom", "scrollWheelZoom", "boxZoom", "keyboard"}

\* navigator.userAgent / window.MediaRecorder / supported mime types.
Platforms == {"desktop", "ios", "noMediaRecorder", "noVp9"}

\* The interaction handlers Leaflet enables when the map is created: all of them,
\* touchZoom only where the browser reports touch or pointer events.
DefaultModes(pl) ==
  IF pl \in {"ios", "noVp9"} THEN InteractionModes ELSE InteractionModes \ {"touchZoom"}

\* Sizes of the chunk a recorder delivers when it stops: empty or not.
ChunkSizes == {0, 1}

\* Outcomes of navigator.mediaDevices.getDisplayMedia().
StreamRejections == {"NotAllowedError", "NotSupportedError", "TypeError"}

VARIABLES
  \* App.tsx, React state
  locations, isAnimating, totalDistance, traveledDistance,
  isRecording, hideUI, recordedVideoUrl, showSummaryOverlay,
  \* App.tsx, refs
  mediaRecorderRef, recordedChunksRef, mediaStreamRef,
  \* AnimatedPlane.tsx, refs and the closure of the current effect
  plane,
  \* the host: frame requests, map, media objects, timers, DOM, alert()
  pendingFrames, enabledModes, zoom, platform,
  streams, recorders, handlers, fsHandlers, autoStopTimers, exitButtons, alert,
  \* history: onAnimationEnd invocations of the engine's current session
  endCalls,
  \* App.tsx, the first-run help overlay; whether the React tree is mounted
  showOnboarding, mounted,
  \* the browser profile: localStorage items of the page's origin
  localStorage,
  \* history: the handler the last step ran, and what held when it was called
  step

appVars == <<locations, isAnimating, totalDistance, traveledDistance,
             isRecording, hideUI, recordedVideoUrl, showSummaryOverlay>>
refVars == <<mediaRecorderRef, recordedChunksRef, mediaStreamRef>>
engineVars == <<plane, pendingFrames, enabledModes, endCalls>>
hostVars == <<zoom, platform, streams, recorders, handlers, fsHandlers,
              autoStopTimers, exitButtons>>
storeVars == <<showOnboarding, mounted, localStorage>>
vars == <<appVars, refVars, engineVars, hostVars, storeVars, alert, step>>

\* ------------------------------------------------------------- geometry
Abs(x) == IF x < 0 THEN -x ELSE x

Min(a, b) == IF a < b THEN a ELSE b

\* A position: latitude and longitude in whole degrees, as one number.
Point(lat, lng) == lat * 1000 + lng

Lat(p) == p \div 1000

Lng(p) == p % 1000

\* L.latLng(location.lat, location.lng) of the place with this id: two places on
\* the equator, the third on the meridian of the second.
LatLng(id) ==
  CASE id = 1 -> Point(0, 0)
    [] id = 2 -> Point(0, 90)
    [] OTHER  -> Point(60, 90)

\* L.LatLng.distanceTo: the great-circle distance on a sphere of radius 6371 km
\* (haversine), to the kilometre, in metres, for the positions a playback visits:
\* the places and the midpoints of the segments between them.
distanceTo(p, q) ==
  IF p = q THEN 0
  ELSE CASE {p, q} = {Point(0, 0), Point(0, 90)}     -> 10008000
         [] {p, q} = {Point(0, 0), Point(0, 45)}     -> 5004000
         [] {p, q} = {Point(0, 45), Point(0, 90)}    -> 5004000
         [] {p, q} = {Point(0, 90), Point(60, 90)}   -> 6672000
         [] {p, q} = {Point(0, 90), Point(30, 90)}   -> 3336000
         [] {p, q} = {Point(30, 90), Point(60, 90)}  -> 3336000
         [] {p, q} = {Point(0, 0), Point(60, 90)}    -> 10008000
         [] {p, q} = {Point(0, 0), Point(30, 45)}    -> 5809000
         [] {p, q} = {Point(30, 45), Point(60, 90)}  -> 4708000
         \* any other pair of positions, which no playback measures: 111 km per
         \* degree of latitude and of longitude
         [] OTHER -> 111000 * (Abs(Lat(p) - Lat(q)) + Abs(Lng(p) - Lng(q)))

\* interpolateLatLng with t = progressMs / DURATION_PER_SEGMENT_MS already clamped:
\* linear in latitude and in longitude.
interpolateLatLng(start, end, progressMs) ==
  Point(Lat(start) + ((Lat(end) - Lat(start)) * progressMs) \div DURATION_PER_SEGMENT_MS,
        Lng(start) + ((Lng(end) - Lng(start)) * progressMs) \div DURATION_PER_SEGMENT_MS)

RECURSIVE PathLength(_)
PathLength(locs) ==
  IF Len(locs) < 2 THEN 0
  ELSE distanceTo(LatLng(locs[1]), LatLng(locs[2])) + PathLength(Tail(locs))

\* The total taken as the distance from the first waypoint to the last.
CalcTotalDistanceEndToEnd(locs) ==
  (IF Len(locs) >= 2 THEN distanceTo(LatLng(locs[1]), LatLng(locs[Len(locs)])) ELSE 0)
    \div 1000

\* The useMemo of App.tsx: metres to kilometres.
CalcTotalDistance(locs) ==
  (IF Len(locs) >= 2 THEN PathLength(locs) ELSE 0) \div 1000

Ids(locs) == {locs[i] : i \in 1..Len(locs)}

\* ------------------------------------------------- AnimatedPlane: effect
\* An engine state: the refs of AnimatedPlane, the outstanding frame requests,
\* the map's enabled interaction modes, the history counter.
EngineState(p, pf, en, ec) == [plane |-> p, pending |-> pf, enabled |-> en, ends |-> ec]

\* cancelAnimationFrame that cancels nothing.
cancelAnimationFrameNoOp(pf, id) == pf

\* cancelAnimationFrame(animationFrameIdRef.current), guarded by the ref's truthiness.
cancelAnimationFrame(pf, id) == IF id # NULL THEN pf \ {id} ELSE pf

\* requestAnimationFrame: an id that names no outstanding request (the least one:
\* every caller overwrites animationFrameIdRef with the id it gets).
FreshFrameId(pf) == CHOOSE f \in FrameIds \ pf : \A g \in FrameIds \ pf : f <= g

\* cleanup that leaves the outstanding frame request alone.
cleanupKeepsFrame(e, originalMapState) ==
  [e EXCEPT
     !.plane = [e.plane EXCEPT !.planeMarkerRef = NULL,
                               !.currentSegmentIndexRef = 0,
                               !.segmentStartTimeRef = NULL,
                               !.lastPositionRef = NULL,
                               !.cumulativeDistanceRef = 0],
     !.enabled = e.enabled \union originalMapState,
     !.ends = 0]

\* cleanup that re-enables every interaction mode, whatever the snapshot says.
cleanupEnablesAll(e, originalMapState) ==
  [e EXCEPT
     !.pending = cancelAnimationFrame(e.pending, e.plane.animationFrameIdRef),
     !.plane = [e.plane EXCEPT !.planeMarkerRef = NULL,
                               !.currentSegmentIndexRef = 0,
                               !.segmentStartTimeRef = NULL,
                               !.lastPositionRef = NULL,
                               !.cumulativeDistanceRef = 0],
     !.enabled = InteractionModes,
     !.ends = 0]

\* cleanup that leaves currentSegmentIndexRef as it is.
cleanupKeepsSegmentIndex(e, originalMapState) ==
  [e EXCEPT
     !.pending = cancelAnimationFrame(e.pending, e.plane.animationFrameIdRef),
     !.plane = [e.plane EXCEPT !.planeMarkerRef = NULL,
                               !.segmentStartTimeRef = NULL,
                               !.lastPositionRef = NULL,
                               !.cumulativeDistanceRef = 0],
     !.enabled = e.enabled \union originalMapState,
     !.ends = 0]

\* cleanup, closed over originalMapState.
cleanup(e, originalMapState) ==
  [e EXCEPT
     !.pending = cancelAnimationFrame(e.pending, e.plane.animationFrameIdRef),
     !.plane = [e.plane EXCEPT !.planeMarkerRef = NULL,
                               !.currentSegmentIndexRef = 0,
                               !.segmentStartTimeRef = NULL,
                               !.lastPositionRef = NULL,
                               !.cumulativeDistanceRef = 0],
     !.enabled = e.enabled \union originalMapState,
     !.ends = 0]

\* The body of the effect without the six disable() calls.
effectBodyKeepsInteraction(e, locs, startAnimation) ==
  LET originalMapState == e.enabled
      c == cleanup(e, originalMapState)
      id == FreshFrameId(c.pending)
  IN  IF startAnimation /\ Len(locs) >= 2
      THEN [c EXCEPT
              !.plane = [c.plane EXCEPT !.planeMarkerRef = LatLng(locs[1]),
                                        !.cumulativeDistanceRef = 0,
                                        !.currentSegmentIndexRef = 0,
                                        !.segmentStartTimeRef = NULL,
                                        !.lastPositionRef = LatLng(locs[1]),
                                        !.animationFrameIdRef = id,
                                        !.originalMapState = originalMapState],
              !.pending = c.pending \union {id},
              !.ends = 0]
      ELSE [c EXCEPT !.plane.originalMapState = originalMapState]

\* The body of the effect, run with the props of the new render.
effectBody(e, locs, startAnimation) ==
  LET originalMapState == e.enabled
      c == cleanup(e, originalMapState)
      id == FreshFrameId(c.pending)
  IN  IF startAnimation /\ Len(locs) >= 2
      THEN [c EXCEPT
              !.enabled = {},
              !.plane = [c.plane EXCEPT !.planeMarkerRef = LatLng(locs[1]),
                                        !.cumulativeDistanceRef = 0,
                                        !.currentSegmentIndexRef = 0,
                                        !.segmentStartTimeRef = NULL,
                                        !.lastPositionRef = LatLng(locs[1]),
                                        !.animationFrameIdRef = id,
                                        !.originalMapState = originalMapState],
              !.pending = c.pending \union {id},
              !.ends = 0]
      ELSE [c EXCEPT !.plane.originalMapState = originalMapState]

\* A change of the effect's dependencies: the previous effect's cleanup, then the body.
useEffect(e, locs, startAnimation) ==
  effectBody(cleanup(e, e.plane.originalMapState), locs, startAnimation)

\* The dependencies of the effect: locations, startAnimation and animateStep, which
\* is rebuilt when locations, onAnimationEnd (locations, isRecording, hideUI) or
\* onDistanceUpdate (totalDistance) change.
EffectDeps(locs, anim, rec, hide, total) == <<locs, anim, rec, hide, total>>

\* React's re-render after a handler: the derived total, then the effect if its
\* dependencies changed. e is the engine state the handler left.
Render(e) ==
  /\ totalDistance' = CalcTotalDistance(locations')
  /\ LET changed ==
           EffectDeps(locations', isAnimating', isRecording', hideUI', totalDistance')
             # EffectDeps(locations, isAnimating, isRecording, hideUI, totalDistance)
         e1 == IF changed THEN useEffect(e, locations', isAnimating') ELSE e
     IN  /\ plane' = e1.plane
         /\ pendingFrames' = e1.pending
         /\ enabledModes' = e1.enabled
         /\ endCalls' = e1.ends

Engine == EngineState(plane, pendingFrames, enabledModes, endCalls)

\* ------------------------------------------------------------ App: state
\* The record of a call of handler op: what held when it was called, the error
\* its try block threw ("none" if none) and, for a frame callback that moved the
\* marker, the progress it interpolated with (milliseconds of the segment) and
\* whether the segment's time had run out before the frame came; for a click
\* on a search result or on a trash button, the id of the place; for a startup,
\* the kind of the waypoint item found in localStorage; for a frame callback,
\* the points of the fitBounds call it made (none if it made none).
Called(op) ==
  [op |-> op, wasAnimating |-> isAnimating, hadFrame |-> pendingFrames # {},
   err |-> "none", progress |-> NULL, late |-> FALSE, id |-> NULL,
   found |-> "none", fit |-> {}]

isIOS == platform = "ios"

\* ------------------------------------------------ localStorage, startup
\* JSON.stringify of the waypoint list: the text is written as the decimal
\* numeral whose digits are the ids, in order ("[]" is 0).
RECURSIVE JSONstringify(_)
JSONstringify(locs) ==
  IF locs = <<>> THEN 0
  ELSE JSONstringify(SubSeq(locs, 1, Len(locs) - 1)) * 10 + locs[Len(locs)]

\* JSON.parse of a text written by JSON.stringify.
RECURSIVE JSONparse(_)
JSONparse(text) ==
  IF text = 0 THEN <<>> ELSE Append(JSONparse(text \div 10), text % 10)

\* A stored item: absent (getItem returns null), a text JSON.parse rejects, a
\* text JSON.parse accepts that is not an array of waypoints (null, {}, 5,
\* [1]), or the text of an array of waypoints.
Absent == [kind |-> "absent", body |-> 0]
Unparseable == [kind |-> "unparseable", body |-> 0]
NotAWaypointArray == [kind |-> "notAWaypointArray", body |-> 0]
WaypointArray(locs) == [kind |-> "array", body |-> JSONstringify(locs)]

\* The initializer of the locations state: only a SyntaxError of JSON.parse
\* is caught; whatever JSON.parse returns becomes the state.
savedLocations(item) ==
  IF item.kind = "array" THEN JSONparse(item.body) ELSE <<>>

\* The first render: locations.length, L.latLng(loc.lat, loc.lng), setView and
\* locations.map are applied to the parsed value and throw on anything that is
\* not an array of waypoints; no error boundary is installed, so React
\* unmounts the whole tree.
FirstRenderSucceeds(item) == item.kind # "notAWaypointArray"

\* ONBOARDING_KEY: the overlay is shown unless the stored text is "true".
OnboardingInitiallyShown(store) == store.onboarding # "true"

\* The effect on [locations]: localStorage.setItem(LOCATIONS_STORAGE_KEY, ...).
persistLocations ==
  /\ localStorage' = [localStorage EXCEPT !.locations = WaypointArray(locations')]
  /\ UNCHANGED <<showOnboarding, mounted>>

\* The state of a run after construction, apart from what is read from storage.
Fresh(pl) ==
  [plane |-> [planeMarkerRef |-> NULL, animationFrameIdRef |-> NULL,
              currentSegmentIndexRef |-> 0, segmentStartTimeRef |-> NULL,
              lastPositionRef |-> NULL, cumulativeDistanceRef |-> 0,
              originalMapState |-> DefaultModes(pl)],
   zoom |-> [zoomControl |-> TRUE, attached |-> TRUE, added |-> 0],
   streams |-> [s \in Sessions |-> [acquired |-> FALSE, live |-> FALSE, releases |-> 0,
                                    onended |-> FALSE, endedQueued |-> FALSE]],
   recorders |-> [r \in Sessions |-> [state |-> "none", stream |-> NULL, stopCalls |-> 0,
                                      stopQueued |-> FALSE]],
   handlers |-> [h \in Sessions |-> [pc |-> "idle", locationsLength |-> 0,
                                     aged |-> FALSE]],
   fsHandlers |-> [k \in FsSlots |-> [pc |-> "idle", locationsLength |-> 0,
                                      aged |-> FALSE]]]

\* Startup on a browser profile holding store. The effect on [locations] runs
\* on mount too, if the first render succeeded.
Startup(store) ==
  /\ locations = savedLocations(store.locations)
  /\ mounted = FirstRenderSucceeds(store.locations)
  /\ showOnboarding = OnboardingInitiallyShown(store)
  /\ localStorage = IF mounted
                    THEN [store EXCEPT !.locations = WaypointArray(locations)]
                    ELSE store
  /\ totalDistance = CalcTotalDistance(locations)
  /\ isAnimating = FALSE
  /\ traveledDistance = 0
  /\ isRecording = FALSE
  /\ hideUI = FALSE
  /\ recordedVideoUrl = <<>>
  /\ showSummaryOverlay = FALSE
  /\ mediaRecorderRef = NULL
  /\ recordedChunksRef = <<>>
  /\ mediaStreamRef = NULL
  /\ platform \in Platforms
  /\ enabledModes = DefaultModes(platform)
  \* The first run of the effect (startAnimation false) has taken its snapshot.
  /\ plane = Fresh(platform).plane
  /\ pendingFrames = {}
  /\ endCalls = 0
  /\ zoom = Fresh(platform).zoom
  /\ streams = Fresh(platform).streams
  /\ recorders = Fresh(platform).recorders
  /\ handlers = Fresh(platform).handlers
  /\ fsHandlers = Fresh(platform).fsHandlers
  /\ autoStopTimers = 0
  /\ exitButtons = 0
  /\ alert = "none"
  /\ step = [Called("mount") EXCEPT !.found = store.locations.kind]

\* A profile on which an earlier run stored an empty list and the help
\* overlay was dismissed.
UsedProfile == [locations |-> WaypointArray(<<>>), onboarding |-> "true"]

Init == Startup(UsedProfile)

\* The profiles a first observed startup can find: the items are absent, were
\* written by an earlier run, or were overwritten on the origin in between.
StoredProfiles ==
  [locations : {Absent, Unparseable, NotAWaypointArray,
                WaypointArray(<<>>), WaypointArray(<<2, 1>>)},
   onboarding : {"absent", "true"}]

InitStartup == \E store \in StoredProfiles : Startup(store)

\* handleCloseOnboarding: the backdrop or the close button of the overlay.
handleCloseOnboarding ==
  /\ mounted /\ showOnboarding
  /\ showOnboarding' = FALSE
  /\ localStorage' = [localStorage EXCEPT !.onboarding = "true"]
  /\ UNCHANGED <<appVars, refVars, engineVars, hostVars, mounted, alert>>
  /\ step' = Called("handleCloseOnboarding")

\* The page is loaded again on the same profile: every object of the former
\* run is gone, localStorage is kept.
Reload ==
  /\ locations' = savedLocations(localStorage.locations)
  /\ mounted' = FirstRenderSucceeds(localStorage.locations)
  /\ showOnboarding' = OnboardingInitiallyShown(localStorage)
  /\ localStorage' = IF mounted'
                     THEN [localStorage EXCEPT !.locations = WaypointArray(locations')]
                     ELSE localStorage
  /\ totalDistance' = CalcTotalDistance(locations')
  /\ isAnimating' = FALSE
  /\ traveledDistance' = 0
  /\ isRecording' = FALSE
  /\ hideUI' = FALSE
  /\ recordedVideoUrl' = <<>>
  /\ showSummaryOverlay' = FALSE
  /\ mediaRecorderRef' = NULL
  /\ recordedChunksRef' = <<>>
  /\ mediaStreamRef' = NULL
  /\ enabledModes' = DefaultModes(platform)
  /\ plane' = Fresh(platform).plane
  /\ pendingFrames' = {}
  /\ endCalls' = 0
  /\ zoom' = Fresh(platform).zoom
  /\ streams' = Fresh(platform).streams
  /\ recorders' = Fresh(platform).recorders
  /\ handlers' = Fresh(platform).handlers
  /\ fsHandlers' = Fresh(platform).fsHandlers
  /\ autoStopTimers' = 0
  /\ exitButtons' = 0
  /\ alert' = "none"
  /\ UNCHANGED platform
  /\ step' = [op |-> "mount", wasAnimating |-> FALSE, hadFrame |-> FALSE,
              err |-> "none", progress |-> NULL, late |-> FALSE, id |-> NULL,
              found |-> localStorage.locations.kind, fit |-> {}]

\* ---------------------------------------------------- App: waypoint store
\* addLocation without its two resets.
addLocationKeepsPlayback(location) ==
  /\ locations' = Append(locations, location)
  /\ UNCHANGED <<isAnimating, traveledDistance>>

\* addLocation
addLocation(location) ==
  /\ locations' = Append(locations, location)
  /\ isAnimating' = FALSE
  /\ traveledDistance' = 0

\* A removal that drops the head of the list, whatever the id.
removeLocationHead(id) ==
  /\ locations' = Tail(locations)
  /\ isAnimating' = FALSE
  /\ traveledDistance' = 0

\* removeLocation
removeLocation(id) ==
  /\ locations' = SelectSeq(locations, LAMBDA l : l # id)
  /\ isAnimating' = FALSE
  /\ traveledDistance' = 0

\* ControlPanel.selectLocation: a click on a search result. The panel is rendered
\* only while the chrome is visible.
SelectLocation(location) ==
  /\ ~hideUI
  /\ step' = [Called(IF location \notin Ids(locations)
                     THEN "addLocation" ELSE "selectLocation") EXCEPT !.id = location]
  /\ IF location \notin Ids(locations)
     THEN addLocation(location)
     ELSE UNCHANGED <<locations, isAnimating, traveledDistance>>
  /\ UNCHANGED <<isRecording, hideUI, recordedVideoUrl, showSummaryOverlay>>
  /\ UNCHANGED <<refVars, hostVars>>
  /\ alert' = "none"
  /\ Render(Engine)
  /\ persistLocations

\* The trash button of a list entry: disabled while animating.
RemoveLocation(id) ==
  /\ ~hideUI
  /\ step' = [Called("removeLocation") EXCEPT !.id = id]
  /\ ~isAnimating
  /\ id \in Ids(locations)
  /\ removeLocation(id)
  /\ UNCHANGED <<isRecording, hideUI, recordedVideoUrl, showSummaryOverlay>>
  /\ UNCHANGED <<refVars, hostVars>>
  /\ alert' = "none"
  /\ Render(Engine)
  /\ persistLocations

\* ----------------------------------------------------- App: start / stop
\* startAnimation, a callback closed over locations.length of the render that made it.
startAnimation(locationsLength) ==
  IF locationsLength >= 2
  THEN traveledDistance' = 0 /\ isAnimating' = TRUE
  ELSE UNCHANGED <<traveledDistance, isAnimating>>

\* stopAnimation
stopAnimation == isAnimating' = FALSE /\ UNCHANGED traveledDistance

\* ControlPanel.handleToggleAnimation: the View Path / Stop Animation button.
ToggleAnimation ==
  /\ ~hideUI
  /\ UNCHANGED storeVars
  /\ step' = Called(IF isAnimating THEN "stopAnimation" ELSE "startAnimation")
  /\ ~((Len(locations) < 2 /\ ~isAnimating) \/ isRecording)
  /\ IF isAnimating THEN stopAnimation ELSE startAnimation(Len(locations))
  /\ UNCHANGED <<locations, isRecording, hideUI, recordedVideoUrl, showSummaryOverlay>>
  /\ UNCHANGED <<refVars, hostVars>>
  /\ alert' = "none"
  /\ Render(Engine)

\* mediaRecorderRef.current?.state === "recording"
RecorderIsRecording ==
  mediaRecorderRef # NULL /\ recorders[mediaRecorderRef].state = "recording"

\* MediaRecorder.stop() called without the test of the recorder's state.
stopRecorderUnguarded(recs, ref) ==
  IF ref # NULL
  THEN [recs EXCEPT ![ref].state = "inactive",
                    ![ref].stopCalls = @ + 1,
                    ![ref].stopQueued = TRUE]
  ELSE recs

\* MediaRecorder.stop() of the recorder in mediaRecorderRef, behind the state test.
stopRecorder(recs, ref) ==
  IF ref # NULL /\ recs[ref].state = "recording"
  THEN [recs EXCEPT ![ref].state = "inactive",
                    ![ref].stopCalls = @ + 1,
                    ![ref].stopQueued = TRUE]
  ELSE recs

\* if (mapRef.current && !mapRef.current.zoomControl) addControl(L.control.zoom())
restoreZoomControl(z) ==
  IF ~z.zoomControl THEN [z EXCEPT !.added = @ + 1] ELSE z

\* if (mapRef.current?.zoomControl) zoomControl.remove()
removeZoomControl(z) ==
  IF z.zoomControl THEN [z EXCEPT !.attached = FALSE] ELSE z

\* stopRecordingHandler
stopRecordingHandler ==
  /\ recorders' = stopRecorder(recorders, mediaRecorderRef)
  /\ isAnimating' = FALSE
  /\ isRecording' = FALSE
  /\ hideUI' = FALSE
  /\ showSummaryOverlay' = FALSE
  /\ zoom' = restoreZoomControl(zoom)

\* The floating stop button, rendered while isRecording.
StopButton ==
  /\ isRecording
  /\ UNCHANGED storeVars
  /\ step' = Called("StopButton")
  /\ stopRecordingHandler
  /\ alert' = "none"
  /\ UNCHANGED <<locations, traveledDistance, recordedVideoUrl>>
  /\ UNCHANGED <<refVars, platform, streams, handlers, fsHandlers, autoStopTimers,
                 exitButtons>>
  /\ Render(Engine)

\* The timer set by handleAnimationEnd fires, 2000 ms after the completion.
AutoStopTimer ==
  /\ autoStopTimers > 0
  /\ UNCHANGED storeVars
  /\ step' = Called("AutoStopTimer")
  /\ autoStopTimers' = autoStopTimers - 1
  /\ stopRecordingHandler
  /\ alert' = "none"
  /\ UNCHANGED <<locations, traveledDistance, recordedVideoUrl>>
  /\ UNCHANGED <<refVars, platform, streams, handlers, fsHandlers, exitButtons>>
  /\ Render(Engine)

\* ----------------------------------------------- App: capture session
\* The catch block's messages without the branch for NotAllowedError.
ErrorMessageNoPermissionBranch(err) ==
  IF isIOS THEN "iosLimited"
  ELSE IF err = "NotSupportedError" THEN "notSupported"
  ELSE "generic"

\* The alert of the catch block, by platform and error.
ErrorMessage(err) ==
  IF isIOS THEN "iosLimited"
  ELSE IF err = "NotAllowedError" THEN "permissionDenied"
  ELSE IF err = "NotSupportedError" THEN "notSupported"
  ELSE "generic"

\* mediaStreamRef.current?.getTracks().forEach((track) => track.stop())
stopTracks(strs, ref) ==
  IF ref # NULL
  THEN [strs EXCEPT ![ref].live = FALSE, ![ref].releases = @ + 1]
  ELSE strs

\* The catch block of startRecordingHandler, entered by handler h with error err;
\* strs are the streams as the try block left them.
catchBlock(h, err, strs) ==
  /\ streams' = stopTracks(strs, mediaStreamRef)
  /\ mediaStreamRef' = NULL
  /\ mediaRecorderRef' = NULL
  /\ isRecording' = FALSE
  /\ hideUI' = FALSE
  /\ alert' = ErrorMessage(err)
  /\ handlers' = [handlers EXCEPT ![h].pc = "done", ![h].aged = FALSE]

\* The precondition check without its return: the handler goes on to request the
\* stream.
startRecordingHandlerNoCheck(h) ==
  /\ handlers[h].pc = "idle"
  /\ \A g \in Sessions : g < h => handlers[g].pc # "idle"
  /\ alert' = IF Len(locations) < 2 THEN "validation"
              ELSE IF isIOS THEN "iosWarning" ELSE "none"
  /\ handlers' = [handlers EXCEPT ![h] =
                    [pc |-> "stream", locationsLength |-> Len(locations),
                     aged |-> FALSE]]
  /\ UNCHANGED <<appVars, refVars, engineVars>>
  /\ UNCHANGED <<zoom, platform, streams, recorders, fsHandlers, autoStopTimers,
                 exitButtons>>

\* startRecordingHandler up to its first await, as invocation h. The map exists
\* from the first commit on, so mapRef.current is set whenever the handler runs.
startRecordingHandler(h) ==
  /\ handlers[h].pc = "idle"
  /\ \A g \in Sessions : g < h => handlers[g].pc # "idle"
  /\ IF Len(locations) < 2
     THEN /\ alert' = "validation"
          /\ UNCHANGED handlers
     ELSE /\ alert' = IF isIOS THEN "iosWarning" ELSE "none"
          /\ handlers' = [handlers EXCEPT ![h] =
                            [pc |-> "stream", locationsLength |-> Len(locations),
                             aged |-> FALSE]]
  /\ UNCHANGED <<appVars, refVars, engineVars>>
  /\ UNCHANGED <<zoom, platform, streams, recorders, fsHandlers, autoStopTimers,
                 exitButtons>>

\* A click on the Record Video button, which is disabled while animating or
\* recording and with fewer than 2 waypoints.
StartRecording(h) ==
  /\ ~hideUI
  /\ UNCHANGED storeVars
  /\ step' = Called("StartRecording")
  /\ ~(isAnimating \/ isRecording \/ Len(locations) < 2)
  /\ startRecordingHandler(h)

\* The handler invoked as a function, whatever the button shows.
CallStartRecording(h) ==
  /\ UNCHANGED storeVars
  /\ step' = Called("startRecordingHandler")
  /\ startRecordingHandler(h)

\* getDisplayMedia resolves: the stream is stored, the zoom control removed, the
\* chrome hidden; the handler waits 100 ms.
StreamGranted(h) ==
  /\ handlers[h].pc = "stream"
  /\ UNCHANGED storeVars
  /\ step' = Called("StreamGranted")
  /\ streams' = [streams EXCEPT ![h].acquired = TRUE, ![h].live = TRUE]
  /\ mediaStreamRef' = h
  /\ zoom' = removeZoomControl(zoom)
  /\ hideUI' = TRUE
  /\ handlers' = [handlers EXCEPT ![h].pc = "settle"]
  /\ alert' = "none"
  /\ UNCHANGED <<locations, isAnimating, traveledDistance, isRecording,
                 recordedVideoUrl, showSummaryOverlay>>
  /\ UNCHANGED <<mediaRecorderRef, recordedChunksRef>>
  /\ UNCHANGED <<platform, recorders, fsHandlers, autoStopTimers, exitButtons>>
  /\ Render(Engine)

\* getDisplayMedia rejects (or its call throws).
StreamRejected(h, err) ==
  /\ handlers[h].pc = "stream"
  /\ UNCHANGED storeVars
  /\ step' = [Called("StreamRejected") EXCEPT !.err = err]
  /\ catchBlock(h, err, streams)
  /\ zoom' = restoreZoomControl(zoom)
  /\ UNCHANGED <<locations, isAnimating, traveledDistance, recordedVideoUrl,
                 showSummaryOverlay>>
  /\ UNCHANGED recordedChunksRef
  /\ UNCHANGED <<platform, recorders, fsHandlers, autoStopTimers, exitButtons>>
  /\ Render(Engine)

\* After the 100 ms pause: fitBounds to the first segment, then the 500 ms pause
\* and the 1500 ms pause, between which the handler does nothing.
SettleDone(h) ==
  /\ handlers[h].pc = "settle"
  /\ UNCHANGED storeVars
  /\ step' = Called("SettleDone")
  /\ handlers' = [handlers EXCEPT ![h].pc = "preroll"]
  /\ alert' = "none"
  /\ UNCHANGED <<appVars, refVars, engineVars>>
  /\ UNCHANGED <<zoom, platform, streams, recorders, fsHandlers, autoStopTimers,
                 exitButtons>>

\* What step 4 throws, "none" if the recorder starts.
RecorderSetupError ==
  IF platform = "noMediaRecorder" THEN "Error"
  ELSE IF mediaStreamRef = NULL THEN "TypeError"
  ELSE IF platform = "noVp9" THEN "NotSupportedError"
  ELSE IF ~streams[mediaStreamRef].live THEN "NotSupportedError"
  ELSE "none"

\* Step 4 creating no recorder: nothing is recording when step 5 runs.
startRecorderSkipped(recs, h, stream) == recs

\* new MediaRecorder(mediaStreamRef.current, ...) with its two handlers, then start().
startRecorder(recs, h, stream) ==
  [recs EXCEPT ![h].state = "recording", ![h].stream = stream]

\* After the pauses: steps 4 and 5 and the stream-ended listener.
PrerollDone(h) ==
  /\ handlers[h].pc = "preroll"
  /\ UNCHANGED storeVars
  /\ step' = [Called("PrerollDone") EXCEPT !.err = RecorderSetupError]
  /\ recordedVideoUrl' = <<>>
  /\ recordedChunksRef' = <<>>
  /\ IF RecorderSetupError # "none"
     THEN /\ catchBlock(h, RecorderSetupError, streams)
          /\ zoom' = restoreZoomControl(zoom)
          \* a recorder whose start() threw is dropped with its reference
          /\ UNCHANGED recorders
          /\ UNCHANGED <<isAnimating, traveledDistance>>
     ELSE /\ recorders' = startRecorder(recorders, h, mediaStreamRef)
          /\ mediaRecorderRef' = h
          /\ isRecording' = TRUE
          /\ startAnimation(handlers[h].locationsLength)
          /\ streams' = [streams EXCEPT ![mediaStreamRef].onended = TRUE]
          /\ handlers' = [handlers EXCEPT ![h].pc = "done", ![h].aged = FALSE]
          /\ alert' = "none"
          /\ UNCHANGED <<mediaStreamRef, hideUI, zoom>>
  /\ UNCHANGED <<locations, showSummaryOverlay>>
  /\ UNCHANGED <<platform, fsHandlers, autoStopTimers, exitButtons>>
  /\ Render(Engine)

\* ------------------------------------------------------- media events
\* The user ends the share in the browser's own UI: the track ends, its "ended"
\* event is queued.
UserEndsShare(s) ==
  /\ streams[s].live
  /\ UNCHANGED storeVars
  /\ step' = Called("UserEndsShare")
  /\ streams' = [streams EXCEPT ![s].live = FALSE, ![s].endedQueued = TRUE]
  /\ alert' = "none"
  /\ UNCHANGED <<appVars, refVars, engineVars>>
  /\ UNCHANGED <<zoom, platform, recorders, handlers, fsHandlers, autoStopTimers,
                 exitButtons>>

\* The "ended" event of the track is delivered to the onended listener, if set.
TrackEnded(s) ==
  /\ streams[s].endedQueued
  /\ UNCHANGED storeVars
  /\ step' = Called(IF streams[s].onended /\ RecorderIsRecording
                    THEN "TrackEnded" ELSE "TrackEndedIgnored")
  /\ streams' = [streams EXCEPT ![s].endedQueued = FALSE]
  /\ IF streams[s].onended /\ RecorderIsRecording
     THEN stopRecordingHandler
     ELSE UNCHANGED <<recorders, isAnimating, isRecording, hideUI, showSummaryOverlay,
                      zoom>>
  /\ alert' = "none"
  /\ UNCHANGED <<locations, traveledDistance, recordedVideoUrl>>
  /\ UNCHANGED <<refVars, platform, handlers, fsHandlers, autoStopTimers, exitButtons>>
  /\ Render(Engine)

\* A recorder whose stream has no live track left stops by itself.
RecorderAutoStop(r) ==
  /\ recorders[r].state = "recording"
  /\ UNCHANGED storeVars
  /\ step' = Called("RecorderAutoStop")
  /\ ~streams[recorders[r].stream].live
  /\ recorders' = [recorders EXCEPT ![r].state = "inactive", ![r].stopQueued = TRUE]
  /\ alert' = "none"
  /\ UNCHANGED <<appVars, refVars, engineVars>>
  /\ UNCHANGED <<zoom, platform, streams, handlers, fsHandlers, autoStopTimers,
                 exitButtons>>

\* ondataavailable: a non-empty chunk, tagged with its recorder, is appended.
ondataavailable(chunks, r, size) == IF size > 0 THEN Append(chunks, r) ELSE chunks

\* The task a stop queues: dataavailable, then the onstop handler of recorder r.
RecorderStopEvent(r, size) ==
  /\ recorders[r].stopQueued
  /\ UNCHANGED storeVars
  /\ step' = Called("RecorderStopEvent")
  /\ recorders' = [recorders EXCEPT ![r].stopQueued = FALSE]
  /\ recordedChunksRef' = ondataavailable(recordedChunksRef, r, size)
  /\ recordedVideoUrl' = <<recordedChunksRef'>>
  /\ streams' = stopTracks(streams, mediaStreamRef)
  /\ mediaStreamRef' = NULL
  /\ alert' = "none"
  /\ UNCHANGED <<locations, isAnimating, traveledDistance, isRecording, hideUI,
                 showSummaryOverlay>>
  /\ UNCHANGED mediaRecorderRef
  /\ UNCHANGED <<zoom, platform, handlers, fsHandlers, autoStopTimers, exitButtons>>
  /\ Render(Engine)

\* ------------------------------------------------ AnimatedPlane: frames
\* handleAnimationEnd whose recording branch shows the summary and sets no timer.
handleAnimationEndNoTimer ==
  IF RecorderIsRecording \/ isRecording \/ hideUI
  THEN /\ showSummaryOverlay' = TRUE
       /\ UNCHANGED <<isAnimating, autoStopTimers>>
  ELSE /\ isAnimating' = FALSE
       /\ UNCHANGED <<showSummaryOverlay, autoStopTimers>>

\* handleAnimationEnd, after its fitBounds to the whole path.
handleAnimationEnd ==
  IF RecorderIsRecording \/ isRecording
  THEN /\ showSummaryOverlay' = TRUE
       /\ autoStopTimers' = autoStopTimers + 1
       /\ UNCHANGED isAnimating
  ELSE IF hideUI
  THEN /\ showSummaryOverlay' = TRUE
       /\ UNCHANGED <<isAnimating, autoStopTimers>>
  ELSE /\ isAnimating' = FALSE
       /\ UNCHANGED <<showSummaryOverlay, autoStopTimers>>

\* updateTraveledDistance, closed over totalDistance.
updateTraveledDistance(prev, distanceIncrement, total) ==
  Min(prev + distanceIncrement \div 1000, total)

\* progress without Math.min.
ProgressUnclamped(elapsedTime) == elapsedTime

\* progress = Math.min(elapsedTime / DURATION_PER_SEGMENT_MS, 1), as milliseconds.
Progress(elapsedTime) == Min(elapsedTime, DURATION_PER_SEGMENT_MS)

\* performance.now() - segmentStartTimeRef.current on a frame that comes dt after
\* the previous one; segmentStartTimeRef holds the time elapsed at the last frame.
ElapsedTime(p, dt) ==
  IF p.segmentStartTimeRef = NULL THEN 0 ELSE p.segmentStartTimeRef + dt

\* The marker position animateStep computes for this frame.
CurrentPosition(p, locs, dt) ==
  interpolateLatLng(LatLng(locs[p.currentSegmentIndexRef + 1]),
                    LatLng(locs[p.currentSegmentIndexRef + 2]),
                    Progress(ElapsedTime(p, dt)))

\* lastPositionRef as the distance is measured: the segment start on a segment's
\* first frame.
LastPosition(p, locs) ==
  IF p.segmentStartTimeRef = NULL
  THEN LatLng(locs[p.currentSegmentIndexRef + 1])
  ELSE p.lastPositionRef

\* distanceIncrement of this frame.
DistanceIncrement(p, locs, dt) ==
  IF LastPosition(p, locs) # NULL
  THEN distanceTo(LastPosition(p, locs), CurrentPosition(p, locs, dt))
  ELSE 0

\* animateStep whose segment advance moves two segments on.
animateStepSkipsSegment(p, locs, dt, id) ==
  LET done == Progress(ElapsedTime(p, dt)) >= DURATION_PER_SEGMENT_MS
  IN  [p EXCEPT
         !.planeMarkerRef = CurrentPosition(p, locs, dt),
         !.lastPositionRef = CurrentPosition(p, locs, dt),
         !.cumulativeDistanceRef = @ + DistanceIncrement(p, locs, dt),
         !.currentSegmentIndexRef = IF done THEN @ + 2 ELSE @,
         !.segmentStartTimeRef = IF done THEN NULL ELSE ElapsedTime(p, dt),
         !.animationFrameIdRef = id]

\* animateStep past its two early returns: the refs after the frame, the next
\* frame requested under id.
animateStep(p, locs, dt, id) ==
  LET done == Progress(ElapsedTime(p, dt)) >= DURATION_PER_SEGMENT_MS
  IN  [p EXCEPT
         !.planeMarkerRef = CurrentPosition(p, locs, dt),
         !.lastPositionRef = CurrentPosition(p, locs, dt),
         !.cumulativeDistanceRef = @ + DistanceIncrement(p, locs, dt),
         !.currentSegmentIndexRef = IF done THEN @ + 1 ELSE @,
         !.segmentStartTimeRef = IF done THEN NULL ELSE ElapsedTime(p, dt),
         !.animationFrameIdRef = id]

\* The end-of-path branch taking the marker off the map.
endOfPathRemovesMarker(p) ==
  [p EXCEPT !.planeMarkerRef = NULL, !.segmentStartTimeRef = NULL,
            !.lastPositionRef = NULL]

\* animateStep at the end of the path: the refs after the branch has returned;
\* the marker and the cumulative distance are left as they are.
endOfPath(p) ==
  [p EXCEPT !.segmentStartTimeRef = NULL, !.lastPositionRef = NULL]

\* The end-of-path branch falling through to the request of the next frame.
completionFramesNoReturn(pf, ref, id) == pf \union {id}

\* animateStep at the end of the path: the outstanding requests after it has
\* cancelled animationFrameIdRef and returned; id would name a further request.
completionFrames(pf, ref, id) == cancelAnimationFrame(pf, ref)

\* animateStep with the fitBounds call on every frame of a segment.
fitSegmentEveryFrame(p, locs) ==
  {LatLng(locs[p.currentSegmentIndexRef + 1]), LatLng(locs[p.currentSegmentIndexRef + 2])}

\* animateStep: the fitBounds call of a segment's first frame (segmentStartTimeRef
\* is null), made before setLatLng; later frames make none.
fitSegment(p, locs) ==
  IF p.segmentStartTimeRef = NULL
  THEN {LatLng(locs[p.currentSegmentIndexRef + 1]),
        LatLng(locs[p.currentSegmentIndexRef + 2])}
  ELSE {}

\* handleAnimationEnd: fitBounds to the bounds of all waypoints.
fitPath(locs) ==
  IF Len(locs) >= 2 THEN {LatLng(locs[i]) : i \in 1..Len(locs)} ELSE {}

\* The pauses of the two setup handlers (100 + 500 + 1500 ms and 100 + 500 ms) and
\* the 2000 ms of the auto-stop timer are all shorter than the shortest interval of
\* FrameGaps. A handler in one of these states is in its pauses.
Pausing == {"settle", "preroll", "fit"}

\* The handlers after a frame callback has run: those in their pauses have been
\* seen by a frame.
Aged(hs) ==
  [h \in DOMAIN hs |-> IF hs[h].pc \in Pausing THEN [hs[h] EXCEPT !.aged = TRUE]
                       ELSE hs[h]]

\* No pause that a frame has seen and no auto-stop timer is still outstanding. A
\* timer is set by a completion, the last frame of its playback, so every later
\* frame has seen it.
PausesElapsed ==
  /\ autoStopTimers = 0
  /\ \A h \in Sessions : ~(handlers[h].pc \in Pausing /\ handlers[h].aged)
  /\ \A k \in FsSlots : ~(fsHandlers[k].pc \in Pausing /\ fsHandlers[k].aged)

\* The frame callback f runs, dt after the previous frame of its segment. A frame
\* that comes dt after another comes after every pause and timer the other has seen.
Frame(f, dt) ==
  /\ f \in pendingFrames
  /\ plane.segmentStartTimeRef # NULL => PausesElapsed
  /\ UNCHANGED storeVars
  /\ step' = IF plane.planeMarkerRef # NULL /\ Len(locations) >= 2
                 /\ plane.currentSegmentIndexRef < Len(locations) - 1
              THEN [Called("Frame") EXCEPT
                      !.progress = Progress(ElapsedTime(plane, dt)),
                      !.late = ElapsedTime(plane, dt) > DURATION_PER_SEGMENT_MS,
                      !.fit = fitSegment(plane, locations)]
              ELSE IF plane.planeMarkerRef # NULL /\ Len(locations) >= 2
              THEN [Called("Frame") EXCEPT !.fit = fitPath(locations)]
              ELSE Called("Frame")
  /\ alert' = "none"
  /\ UNCHANGED <<locations, isRecording, hideUI, recordedVideoUrl>>
  /\ UNCHANGED refVars
  /\ handlers' = Aged(handlers)
  /\ fsHandlers' = Aged(fsHandlers)
  /\ UNCHANGED <<zoom, platform, streams, recorders, exitButtons>>
  /\ LET pf == pendingFrames \ {f}
         cancelled == cancelAnimationFrame(pf, plane.animationFrameIdRef)
         id == FreshFrameId(pf)
     IN  IF plane.planeMarkerRef = NULL \/ Len(locations) < 2
         THEN /\ UNCHANGED <<isAnimating, traveledDistance, showSummaryOverlay,
                             autoStopTimers>>
              /\ Render(EngineState(plane, cancelled, enabledModes, endCalls))
         ELSE IF plane.currentSegmentIndexRef >= Len(locations) - 1
         THEN /\ handleAnimationEnd
              /\ UNCHANGED traveledDistance
              /\ Render(EngineState(endOfPath(plane),
                                    completionFrames(pf, plane.animationFrameIdRef, id),
                                    enabledModes, endCalls + 1))
         ELSE /\ traveledDistance' =
                   IF DistanceIncrement(plane, locations, dt) > 0
                   THEN updateTraveledDistance(traveledDistance,
                          DistanceIncrement(plane, locations, dt), totalDistance)
                   ELSE traveledDistance
              /\ UNCHANGED <<isAnimating, showSummaryOverlay, autoStopTimers>>
              /\ Render(EngineState(animateStep(plane, locations, dt, id),
                                    pf \union {id}, enabledModes, endCalls))

\* -------------------------------------------------- App: fullscreen view
\* The control that starts the fullscreen view belongs to the control panel.
FullscreenButtonEnabled ==
  ~hideUI /\ ~isAnimating /\ ~isRecording /\ Len(locations) >= 2

\* startFullscreenViewHandler up to its first await.
StartFullscreen(k) ==
  /\ FullscreenButtonEnabled
  /\ UNCHANGED storeVars
  /\ step' = Called("StartFullscreen")
  /\ fsHandlers[k].pc = "idle"
  /\ \A j \in FsSlots : j < k => fsHandlers[j].pc # "idle"
  /\ IF Len(locations) < 2
     THEN /\ alert' = "validationFullscreen"
          /\ UNCHANGED <<zoom, hideUI, fsHandlers>>
     ELSE /\ alert' = "none"
          /\ zoom' = removeZoomControl(zoom)
          /\ hideUI' = TRUE
          /\ fsHandlers' = [fsHandlers EXCEPT ![k] =
                              [pc |-> "settle", locationsLength |-> Len(locations),
                               aged |-> FALSE]]
  /\ UNCHANGED <<locations, isAnimating, traveledDistance, isRecording,
                 recordedVideoUrl, showSummaryOverlay>>
  /\ UNCHANGED refVars
  /\ UNCHANGED <<platform, streams, recorders, handlers, autoStopTimers, exitButtons>>
  /\ Render(Engine)

\* After the 100 ms pause: fitBounds to the first segment, then the 500 ms pause.
FsSettleDone(k) ==
  /\ fsHandlers[k].pc = "settle"
  /\ UNCHANGED storeVars
  /\ step' = Called("FsSettleDone")
  /\ fsHandlers' = [fsHandlers EXCEPT ![k].pc = "fit"]
  /\ alert' = "none"
  /\ UNCHANGED <<appVars, refVars, engineVars>>
  /\ UNCHANGED <<zoom, platform, streams, recorders, handlers, autoStopTimers,
                 exitButtons>>

\* After the 500 ms pause: playback starts and the exit button is added to the page.
FsFitDone(k) ==
  /\ fsHandlers[k].pc = "fit"
  /\ UNCHANGED storeVars
  /\ step' = Called("FsFitDone")
  /\ startAnimation(fsHandlers[k].locationsLength)
  /\ exitButtons' = exitButtons + 1
  /\ fsHandlers' = [fsHandlers EXCEPT ![k] = [pc |-> "idle", locationsLength |-> 0,
                                              aged |-> FALSE]]
  /\ alert' = "none"
  /\ UNCHANGED <<locations, isRecording, hideUI, recordedVideoUrl, showSummaryOverlay>>
  /\ UNCHANGED refVars
  /\ UNCHANGED <<zoom, platform, streams, recorders, handlers, autoStopTimers>>
  /\ Render(Engine)

\* exitFullscreenMode
exitFullscreenMode ==
  /\ hideUI' = FALSE
  /\ isAnimating' = FALSE
  /\ showSummaryOverlay' = FALSE
  /\ zoom' = restoreZoomControl(zoom)
  /\ exitButtons' = IF exitButtons > 0 THEN exitButtons - 1 ELSE 0

\* SummaryOverlay.handleClick: a click on the summary overlay.
OverlayClick ==
  /\ showSummaryOverlay
  /\ UNCHANGED storeVars
  /\ step' = Called("OverlayClick")
  /\ IF hideUI
     THEN exitFullscreenMode
     ELSE UNCHANGED <<hideUI, isAnimating, showSummaryOverlay, zoom, exitButtons>>
  /\ alert' = "none"
  /\ UNCHANGED <<locations, traveledDistance, isRecording, recordedVideoUrl>>
  /\ UNCHANGED refVars
  /\ UNCHANGED <<platform, streams, recorders, handlers, fsHandlers, autoStopTimers>>
  /\ Render(Engine)

\* A click on the floating exit button.
ExitButtonClick ==
  /\ exitButtons > 0
  /\ UNCHANGED storeVars
  /\ step' = Called("ExitButtonClick")
  /\ exitFullscreenMode
  /\ alert' = "none"
  /\ UNCHANGED <<locations, traveledDistance, isRecording, recordedVideoUrl>>
  /\ UNCHANGED refVars
  /\ UNCHANGED <<platform, streams, recorders, handlers, fsHandlers, autoStopTimers>>
  /\ Render(Engine)

\* ---------------------------------------------------------- specification
\* The search offers places in catalogue order: one not yet on the list and past
\* every place on it.
NextPlaces == {id \in LocationIds : \A l \in Ids(locations) : l < id}

Next ==
  \/ \E id \in NextPlaces : SelectLocation(id)
  \/ \E id \in LocationIds : RemoveLocation(id)
  \/ ToggleAnimation
  \/ \E h \in 1..MaxSessions : StartRecording(h)
  \/ \E h \in Sessions : StreamGranted(h)
  \/ \E h \in Sessions, err \in StreamRejections : StreamRejected(h, err)
  \/ \E h \in Sessions : SettleDone(h)
  \/ \E h \in Sessions : PrerollDone(h)
  \/ StopButton
  \/ AutoStopTimer
  \/ \E s \in Sessions : UserEndsShare(s)
  \/ \E s \in Sessions : TrackEnded(s)
  \/ \E r \in Sessions : RecorderAutoStop(r)
  \/ \E r \in Sessions, size \in ChunkSizes : RecorderStopEvent(r, size)
  \/ \E f \in FrameIds, dt \in FrameGaps : Frame(f, dt)
  \/ \E k \in FsSlots : StartFullscreen(k)
  \/ \E k \in FsSlots : FsSettleDone(k)
  \/ \E k \in FsSlots : FsFitDone(k)
  \/ OverlayClick
  \/ ExitButtonClick

Spec == Init /\ [][Next]_vars

\* Capture sessions that overlap: the user builds a path and presses Record Video
\* again while an earlier invocation of startRecordingHandler is still under way;
\* playback is started by the capture setup alone.
NextTwo ==
  \/ \E id \in NextPlaces : SelectLocation(id)
  \/ \E h \in 1..MaxOverlappingSessions : StartRecording(h)
  \/ \E h \in Sessions : StreamGranted(h)
  \/ \E h \in Sessions, err \in StreamRejections : StreamRejected(h, err)
  \/ \E h \in Sessions : SettleDone(h)
  \/ \E h \in Sessions : PrerollDone(h)
  \/ StopButton
  \/ AutoStopTimer
  \/ \E r \in Sessions : RecorderAutoStop(r)
  \/ \E r \in Sessions, size \in ChunkSizes : RecorderStopEvent(r, size)
  \/ \E f \in FrameIds, dt \in FrameGaps : Frame(f, dt)

SpecTwo == Init /\ [][NextTwo]_vars

\* The waypoint store and the engine alone: the search offers every place, so the
\* list takes every order; playback is started and stopped from the panel.
NextStore ==
  \/ \E id \in LocationIds : SelectLocation(id)
  \/ \E id \in LocationIds : RemoveLocation(id)
  \/ ToggleAnimation
  \/ \E f \in FrameIds, dt \in FrameGaps : Frame(f, dt)

SpecStore == Init /\ [][NextStore]_vars

\* The handlers as functions: startRecordingHandler is called in any state, also
\* one in which its button is disabled.
NextCalls ==
  \/ Next
  \/ \E h \in 1..MaxSessions : CallStartRecording(h)

SpecCalls == Init /\ [][NextCalls]_vars

\* A timer that has been set fires: the page stays open and its event loop runs.
\* Runs, one after another, on one browser profile; while the help overlay is
\* shown it covers the page, and nothing can be clicked if nothing is mounted.
NextStartup ==
  \/ handleCloseOnboarding
  \/ Reload
  \/ /\ mounted /\ ~showOnboarding
     /\ \/ \E id \in LocationIds : SelectLocation(id)
        \/ \E id \in LocationIds : RemoveLocation(id)

SpecStartup == InitStartup /\ [][NextStartup]_vars

SpecTimers == Spec /\ WF_vars(AutoStopTimer)

\* A playback from the panel that is left alone: the list is the one a former run
\* stored, View Path is pressed when idle, nothing is stopped or edited, and the
\* browser keeps delivering the frame it was asked for.
StoredPaths ==
  {p \in UNION {[1..n -> LocationIds] : n \in 2..MaxLocations} :
     \A i, j \in 1..Len(p) : p[i] = p[j] => i = j}

InitPlayback ==
  \E p \in StoredPaths :
     Startup([locations |-> WaypointArray(p), onboarding |-> "true"])

DeliverFrame == \E f \in FrameIds, dt \in FrameGaps : Frame(f, dt)

NextPlayback ==
  \/ ~isAnimating /\ ToggleAnimation
  \/ DeliverFrame

SpecPlayback == InitPlayback /\ [][NextPlayback]_vars /\ WF_vars(DeliverFrame)

\* ------------------------------------------------------------------ claims
\* The engine holds no session: no marker, no outstanding frame request, every
\* session field at its initial value.
EngineIdle ==
  /\ plane.planeMarkerRef = NULL
  /\ pendingFrames = {}
  /\ plane.currentSegmentIndexRef = 0
  /\ plane.segmentStartTimeRef = NULL
  /\ plane.lastPositionRef = NULL
  /\ plane.cumulativeDistanceRef = 0

\* C1: after addLocation or removeLocation has run, in whatever state it was
\* called, isAnimating is false and traveledDistance is 0.
C1_WaypointChangeResetsPlayback ==
  step.op \in {"addLocation", "removeLocation"} =>
    (isAnimating = FALSE /\ traveledDistance = 0)

\* A waypoint was added while a playback was running.
C1_AddedWhilePlaying ==
  step.op = "addLocation" /\ step.wasAnimating /\ Len(locations) = 3

\* C2: once playback is cancelled (isAnimating false again, by stop or by a
\* waypoint change) the frame request is cancelled, the marker removed and the
\* session fields reset; a frame callback runs only while a playback is on, so no
\* frame moves the marker or reports a distance after the cancellation.
C2_CancelledPlaybackIsIdle ==
  /\ ~isAnimating => EngineIdle
  /\ plane.planeMarkerRef = NULL => EngineIdle
  /\ step.op = "Frame" => step.wasAnimating

\* A playback with an outstanding frame request, part of the path travelled, was
\* cancelled by the stop button or by a waypoint change.
C2_CancelledMidFlight ==
  /\ step.op \in {"stopAnimation", "addLocation"}
  /\ step.wasAnimating /\ step.hadFrame
  /\ (step.op = "stopAnimation" => traveledDistance > 0)

\* C3: between a start of the engine and its return to idle, onAnimationEnd is
\* invoked at most once.
C3_CompletionAtMostOnce == endCalls <= 1

\* The completion callback has run in a session that is still on (recording or
\* fullscreen preview: the coordinator keeps isAnimating).
C3_CompletedSessionStillOn ==
  endCalls = 1 /\ isAnimating /\ showSummaryOverlay /\ pendingFrames = {}

\* C4: a start of playback (the View Path button, step 5 of the capture setup,
\* the fullscreen setup) made while the list holds fewer than 2 waypoints changes
\* nothing: isAnimating stays false, traveledDistance keeps its value, no marker
\* appears, no frame is requested and no interaction mode is disabled.
C4_StartBelowTwoIsNoOp ==
  [][(/\ step'.op \in {"startAnimation", "PrerollDone", "FsFitDone"}
      /\ step'.err = "none"
      /\ Len(locations) < 2)
     => (/\ isAnimating' = FALSE
         /\ traveledDistance' = traveledDistance
         /\ plane'.planeMarkerRef = NULL
         /\ pendingFrames' = {}
         /\ enabledModes' = enabledModes)]_vars

\* C5: once the stop handler of a recorder that stopRecordingHandler stopped has
\* run, the tracks of its stream have been released exactly once, the stream
\* handle is null and the recorder handle is cleared.
C5_StoppedSessionReleased ==
  \A r \in Sessions :
    (/\ step.op = "RecorderStopEvent"
     /\ recorders[r].state = "inactive"
     /\ recorders[r].stopCalls >= 1
     /\ ~recorders[r].stopQueued)
    => (/\ streams[recorders[r].stream].releases = 1
        /\ mediaStreamRef = NULL
        /\ mediaRecorderRef = NULL)

\* C6: the snapshot a session restores is the set of modes enabled before the
\* session disabled them, also after re-runs of the effect; with no session on
\* (no marker) exactly those modes are enabled.
C6_ModesRestored ==
  /\ plane.originalMapState = DefaultModes(platform)
  /\ (plane.planeMarkerRef = NULL => enabledModes = DefaultModes(platform))

\* A session that had disabled the modes has ended on a map whose touchZoom was
\* off before: the other modes are back, touchZoom is still off.
C6_SessionEndedTouchZoomOff ==
  /\ step.op \in {"Frame", "stopAnimation", "StopButton", "AutoStopTimer"}
  /\ step.wasAnimating /\ step.hadFrame
  /\ ~isAnimating
  /\ enabledModes = InteractionModes \ {"touchZoom"}

\* C7, as stated: a declined stream request ends with hideUI and isRecording
\* false, no marker created, no playback started, no recorder created and the
\* permission message shown.
C7_DeclinedShowsPermissionMessage ==
  [][(step'.op = "StreamRejected" /\ step'.err = "NotAllowedError")
     => (/\ ~hideUI' /\ ~isRecording'
         /\ (plane.planeMarkerRef = NULL => plane'.planeMarkerRef = NULL)
         /\ (~isAnimating => ~isAnimating')
         /\ recorders' = recorders /\ mediaRecorderRef' = NULL
         /\ alert' = "permissionDenied")]_vars

\* C7, amended: as above, the message being the permission one except on iOS,
\* where the message about iOS's limited recording is shown instead.
C7_DeclinedStreamUnwinds ==
  [][(step'.op = "StreamRejected" /\ step'.err = "NotAllowedError")
     => (/\ ~hideUI' /\ ~isRecording'
         /\ (plane.planeMarkerRef = NULL => plane'.planeMarkerRef = NULL)
         /\ (~isAnimating => ~isAnimating')
         /\ recorders' = recorders /\ mediaRecorderRef' = NULL
         /\ alert' = IF isIOS THEN "iosLimited" ELSE "permissionDenied")]_vars

\* A stream request was declined and the permission message shown.
C7_DeclinedOffIOS ==
  step.op = "StreamRejected" /\ step.err = "NotAllowedError" /\ alert = "permissionDenied"

\* The map shows a zoom control.
ZoomControlShown == zoom.attached \/ zoom.added > 0

\* C8: when a step of the capture setup has thrown and the catch block has run,
\* every track is stopped, the stream and recorder handles are null, isRecording
\* and hideUI are false, the zoom control the setup removed when the stream was
\* granted is back on the map, a message has been shown and no recorder is left
\* recording.
C8_FailedSetupUnwinds ==
  (step.op \in {"StreamRejected", "PrerollDone"} /\ step.err # "none")
  => (/\ \A s \in Sessions : ~streams[s].live
      /\ mediaStreamRef = NULL /\ mediaRecorderRef = NULL
      /\ ~isRecording /\ ~hideUI
      /\ (step.op = "PrerollDone" => ZoomControlShown)
      /\ alert # "none"
      /\ \A r \in Sessions : recorders[r].state # "recording")

\* C9: at most one capture session is under way (in setup or recording) and at
\* most one stream is live; a stream or recorder handle that names a live session
\* is never overwritten with another one.
C9_SingleCaptureSession ==
  /\ Cardinality({s \in Sessions : streams[s].live}) <= 1
  /\ Cardinality({r \in Sessions : recorders[r].state = "recording"}) <= 1
  /\ \A s \in Sessions : streams[s].live => mediaStreamRef = s

\* C10: stopRecordingHandler calls stop() on a recorder at most once however often
\* it runs, and every run of it leaves isAnimating, isRecording, hideUI and
\* showSummaryOverlay false.
C10_StopIdempotent ==
  /\ \A r \in Sessions : recorders[r].stopCalls <= 1
  /\ step.op \in {"StopButton", "AutoStopTimer", "TrackEnded"}
       => (~isAnimating /\ ~isRecording /\ ~hideUI /\ ~showSummaryOverlay)

\* The auto-stop timer ran stopRecordingHandler for a session whose recorder an
\* earlier run had stopped, its stop event already delivered.
C10_StoppedTwice ==
  /\ step.op = "AutoStopTimer"
  /\ \E r \in Sessions : /\ mediaRecorderRef = r
                         /\ recorders[r].stopCalls = 1
                         /\ ~recorders[r].stopQueued

\* C11: once the "ended" event of the captured stream's track has been delivered
\* to the listener the setup registered, in whichever order it and the recorder's
\* own stop arrive, the stop sequence has run: isAnimating, isRecording, hideUI
\* and showSummaryOverlay are all false.
C11_StreamEndRunsStopSequence ==
  (/\ step.op \in {"TrackEnded", "TrackEndedIgnored"}
   /\ \E s \in Sessions : streams[s].onended /\ ~streams[s].live)
  => (~isAnimating /\ ~isRecording /\ ~hideUI /\ ~showSummaryOverlay)

\* The stop sequence has run and the recorder the handle names records no more.
CaptureStopped ==
  ~isRecording /\ ~hideUI /\ ~isAnimating /\ ~showSummaryOverlay /\ ~RecorderIsRecording

\* The frame that just ran found the path complete while recording.
CompletedWhileRecording ==
  step.op = "Frame" /\ endCalls = 1 /\ (isRecording \/ RecorderIsRecording)

\* C12: a completion while recording shows the summary at once, leaves the
\* recorders as they are and sets the auto-stop timer; every such completion is
\* eventually followed by a state in which isRecording, hideUI, isAnimating and
\* showSummaryOverlay are false and the recorder is stopped.
C12_CompletionWhileRecordingStops ==
  /\ [][(endCalls' = endCalls + 1 /\ (isRecording \/ RecorderIsRecording))
        => (/\ showSummaryOverlay'
            /\ recorders' = recorders
            /\ isRecording' = isRecording
            /\ autoStopTimers' = autoStopTimers + 1)]_vars
  /\ (CompletedWhileRecording ~> CaptureStopped)

\* The auto-stop timer, set by a completion while recording, has stopped the
\* recorder and run the stop sequence.
C12_TimerStoppedRecorder ==
  /\ step.op = "AutoStopTimer"
  /\ CaptureStopped
  /\ \E r \in Sessions : /\ mediaRecorderRef = r
                         /\ recorders[r].stopCalls = 1
                         /\ recorders[r].stopQueued

\* The fullscreen preview after its playback has completed: chrome hidden, not
\* recording, summary shown, the marker still on the map.
FullscreenSummary ==
  /\ hideUI /\ ~isRecording /\ showSummaryOverlay
  /\ isAnimating /\ plane.planeMarkerRef # NULL

\* C13: a completion in fullscreen preview (hideUI, not recording) shows the
\* summary and sets no timer; the coordinator leaves that mode only by a click on
\* the overlay or on the exit control, which sets hideUI, isAnimating and
\* showSummaryOverlay to false.
C13_FullscreenSummaryStays ==
  /\ [][(endCalls' = endCalls + 1 /\ hideUI /\ ~isRecording /\ ~RecorderIsRecording)
        => (FullscreenSummary' /\ autoStopTimers' = autoStopTimers)]_vars
  /\ [][(FullscreenSummary /\ ~FullscreenSummary')
        => (/\ step'.op \in {"OverlayClick", "ExitButtonClick"}
            /\ ~hideUI' /\ ~isAnimating' /\ ~showSummaryOverlay')]_vars

\* The engine has passed the last segment: its next frame callback takes the
\* end-of-path branch of animateStep.
AtEndOfPath ==
  /\ plane.planeMarkerRef # NULL
  /\ Len(locations) >= 2
  /\ plane.currentSegmentIndexRef >= Len(locations) - 1

\* C14: after a completion in the normal case (chrome visible, not recording)
\* isAnimating is false and showSummaryOverlay is false.
C14_NormalCompletionGoesIdle ==
  [][(/\ step'.op = "Frame" /\ AtEndOfPath
      /\ ~hideUI /\ ~isRecording /\ ~RecorderIsRecording)
     => (~isAnimating' /\ ~showSummaryOverlay')]_vars

\* The steps of startRecordingHandler, as labels of the handler's position.
SetupOps == {"StartRecording", "StreamGranted", "StreamRejected", "SettleDone",
             "PrerollDone"}

\* The positions a handler passes, in order; the catch block leads to "done".
SetupOrder ==
  {<<"idle", "stream">>, <<"stream", "settle">>, <<"settle", "preroll">>,
   <<"preroll", "done">>, <<"stream", "done">>}

\* C15: the setup steps of startRecordingHandler run in a fixed order, each after
\* the previous one: the handler's position moves along SetupOrder only; before
\* its stream is granted the handler holds no stream and no recorder; during the
\* pauses it holds its stream and still no recorder; its recorder exists only
\* once it is through. The setup hides the chrome only in the step that stores
\* the granted stream, and it sets isRecording, starts playback and registers the
\* stream-ended listener only in the step that has started the recorder.
C15_SetupStepsInOrder ==
  /\ [][\A h \in Sessions :
          handlers'[h].pc # handlers[h].pc
            => <<handlers[h].pc, handlers'[h].pc>> \in SetupOrder]_vars
  /\ [](\A h \in Sessions :
          /\ handlers[h].pc \in {"idle", "stream"}
               => ~streams[h].acquired /\ recorders[h].state = "none"
          /\ handlers[h].pc \in {"settle", "preroll"}
               => streams[h].acquired /\ recorders[h].state = "none"
          /\ recorders[h].state # "none"
               => streams[h].acquired /\ handlers[h].pc = "done")
  /\ [][(step'.op \in SetupOps /\ ~hideUI /\ hideUI')
        => \E h \in Sessions :
              /\ handlers[h].pc = "stream" /\ handlers'[h].pc = "settle"
              /\ streams'[h].acquired /\ mediaStreamRef' = h]_vars
  /\ [][(\/ step'.op \in SetupOps /\ ~isAnimating /\ isAnimating'
         \/ step'.op \in SetupOps /\ ~isRecording /\ isRecording'
         \/ \E s \in Sessions : ~streams[s].onended /\ streams'[s].onended)
        => \E h \in Sessions :
              /\ handlers[h].pc = "preroll" /\ handlers'[h].pc = "done"
              /\ recorders'[h].state = "recording" /\ mediaRecorderRef' = h
              /\ isRecording' /\ isAnimating'
              /\ streams'[mediaStreamRef'].onended]_vars

C15_SetupCompleted ==
  /\ step.op = "PrerollDone" /\ step.err = "none" /\ ~step.wasAnimating
  /\ handlers[1].pc = "done"
  /\ streams[1].acquired /\ streams[1].onended
  /\ hideUI /\ isRecording /\ isAnimating /\ RecorderIsRecording
  /\ pendingFrames # {}
\* C16: startRecordingHandler called with fewer than 2 waypoints shows the
\* validation message and changes nothing else: no stream is requested (the
\* handler's position stays idle), and hideUI, isRecording, isAnimating, the stream
\* and recorder handles, the zoom control and recordedVideoUrl are unchanged.
C16_TooFewWaypointsRejected ==
  [][(step'.op = "startRecordingHandler" /\ Len(locations) < 2)
     => (/\ alert' = "validation"
         /\ handlers' = handlers
         /\ streams' = streams /\ recorders' = recorders
         /\ hideUI' = hideUI /\ isRecording' = isRecording
         /\ isAnimating' = isAnimating
         /\ mediaStreamRef' = mediaStreamRef
         /\ mediaRecorderRef' = mediaRecorderRef
         /\ zoom' = zoom
         /\ recordedVideoUrl' = recordedVideoUrl)]_vars

C16_RejectedWithOneWaypoint ==
  /\ step.op = "startRecordingHandler"
  /\ Len(locations) = 1
  /\ alert = "validation"
  /\ \A h \in Sessions : handlers[h].pc = "idle"
\* The stop event of recorder r has run: the capture session of r has completed.
SessionCompleted(r) ==
  recorders[r].state = "inactive" /\ ~recorders[r].stopQueued

\* C17: the stop event of a recorder sets recordedVideoUrl to an artifact built
\* from the chunks in recordedChunksRef, which are the non-empty chunks of that
\* recorder alone (one, or none if the chunk was empty); a session that has
\* completed delivers no second stop event; nothing else sets an artifact.
C17_ArtifactOfOwnChunks ==
  /\ [][step'.op = "RecorderStopEvent"
        => \E r \in Sessions :
              /\ recorders[r].stopQueued /\ SessionCompleted(r)'
              /\ recordedChunksRef' \in {<<r>>, <<>>}
              /\ recordedVideoUrl' = <<recordedChunksRef'>>]_vars
  /\ [][\A r \in Sessions : SessionCompleted(r) => SessionCompleted(r)']_vars
  /\ [][(recordedVideoUrl' # recordedVideoUrl /\ recordedVideoUrl' # <<>>)
        => step'.op = "RecorderStopEvent"]_vars

\* The length of segment i of the path, metres.
SegmentLength(locs, i) == distanceTo(LatLng(locs[i]), LatLng(locs[i + 1]))

\* The length of the first n segments of the path, metres.
RECURSIVE LengthOfSegments(_, _)
LengthOfSegments(locs, n) ==
  IF n <= 0 THEN 0 ELSE LengthOfSegments(locs, n - 1) + SegmentLength(locs, n)

\* C18: in every state totalDistance (km) is the sum of the distances between
\* consecutive waypoints of the current list, in order, and 0 with 0 or 1 entries.
C18_TotalIsSumOfSegments ==
  /\ totalDistance * 1000 = LengthOfSegments(locations, Len(locations) - 1)
  /\ Len(locations) <= 1 => totalDistance = 0

C18_RemovedFromDetour ==
  /\ step.op = "removeLocation"
  /\ locations = <<3, 2>>
  /\ totalDistance * 1000 = distanceTo(LatLng(3), LatLng(2))

\* The engine stands at a segment boundary of a running playback: before the first
\* frame of segment currentSegmentIndexRef, the frame requested.
AtSegmentBoundary ==
  /\ plane.planeMarkerRef # NULL
  /\ plane.segmentStartTimeRef = NULL
  /\ pendingFrames # {}
  /\ Len(locations) >= 2

\* C19: at every segment boundary of a playback, the end of the path included, the
\* increments reported so far sum to the length of the segments travelled, the
\* marker stands on the waypoint that ends the segment, and the next segment
\* measures from that point.
C19_IncrementsSumToPathLength ==
  AtSegmentBoundary
    => /\ plane.cumulativeDistanceRef =
            LengthOfSegments(locations, plane.currentSegmentIndexRef)
       /\ plane.planeMarkerRef = LatLng(locations[plane.currentSegmentIndexRef + 1])
       /\ LastPosition(plane, locations) = plane.planeMarkerRef

\* C20: the progress a frame callback interpolates with lies between 0 and 1 (0 and
\* DURATION_PER_SEGMENT_MS milliseconds of the segment), also when the frame comes
\* after the segment's time has run out.
C20_ProgressWithinUnitInterval ==
  step.op = "Frame"
    => \/ step.progress = NULL
       \/ (0 <= step.progress /\ step.progress <= DURATION_PER_SEGMENT_MS)

C20_LateFrameClamped ==
  /\ step.op = "Frame" /\ step.late
  /\ step.progress = DURATION_PER_SEGMENT_MS
  /\ Len(locations) = 3
  /\ plane.currentSegmentIndexRef = 1
  /\ plane.planeMarkerRef = LatLng(locations[2])

\* C21: off iOS (the message on iOS is the subject of C7), the message of the
\* catch block follows the cause: a declined request gives the permission
\* message, an unsupported capture API (NotSupportedError, or the Error thrown
\* for a missing MediaRecorder) the unsupported message, anything else the
\* generic one.
C21_MessageFollowsCause ==
  [][(step'.op \in {"StreamRejected", "PrerollDone"} /\ step'.err # "none" /\ ~isIOS)
     => alert' = IF step'.err = "NotAllowedError" THEN "permissionDenied"
                 ELSE IF step'.err \in {"NotSupportedError", "Error"}
                 THEN "notSupported"
                 ELSE "generic"]_vars

\* C22: the waypoint list never holds an id twice; it changes only by an add,
\* which appends the selected id, not yet on the list, at the end, or by a remove,
\* which deletes the entry with the given id and keeps the others in their
\* order; selecting a search result that is already on the list changes nothing.
C22_ListDistinctInInsertionOrder ==
  /\ [](\A i, j \in 1..Len(locations) : locations[i] = locations[j] => i = j)
  /\ [][locations' # locations
        => \/ /\ step'.op = "addLocation"
              /\ step'.id \notin Ids(locations)
              /\ locations' = locations \o <<step'.id>>
           \/ /\ step'.op = "removeLocation"
              /\ \E i \in 1..Len(locations) :
                    /\ locations[i] = step'.id
                    /\ locations' = SubSeq(locations, 1, i - 1)
                                      \o SubSeq(locations, i + 1, Len(locations))]_vars
  /\ [][step'.op = "selectLocation"
        => step'.id \in Ids(locations) /\ locations' = locations]_vars

C22_RemovedFromTheMiddle ==
  /\ step.op = "removeLocation" /\ step.id = 2
  /\ locations = <<3, 1>>
  /\ ~isAnimating /\ traveledDistance = 0

\* ------------------------------------------------------------------ C23
\* C23: the help overlay is on the screen after a startup exactly when the
\* help-seen flag is not stored; dismissing it hides it and stores the flag;
\* once the flag is stored it stays stored and the overlay is never shown
\* again, in this run or after any later startup.
OverlayOnScreen == mounted /\ showOnboarding

C23_HelpShownOncePerProfile ==
  /\ [](step.op = "mount" => (OverlayOnScreen <=> localStorage.onboarding # "true"))
  /\ [][step'.op = "handleCloseOnboarding"
        => ~OverlayOnScreen' /\ localStorage'.onboarding = "true"]_vars
  /\ [](localStorage.onboarding = "true" => ~OverlayOnScreen)
  /\ [][localStorage.onboarding = "true" => localStorage'.onboarding = "true"]_vars

\* ------------------------------------------------------------------ C24
\* C24: a startup that finds a waypoint item JSON.parse rejects, or one it
\* accepts that is not an array of waypoints, ends mounted with an empty list;
\* a startup after a run that stored its list ends with that list.
C24_StartupSurvivesStoredData ==
  /\ [](step.op = "mount" /\ step.found \in {"unparseable", "notAWaypointArray"}
        => mounted /\ locations = <<>>)
  /\ [][(step'.op = "mount" /\ mounted) => (mounted' /\ locations' = locations)]_vars

\* ------------------------------------------------------------------ C25
\* C25: an auto-stop timer that fires after the capture session that set it has
\* been stopped leaves isAnimating, hideUI, isRecording and showSummaryOverlay
\* of whatever the user started since as they are.
C25_TimerActsOnOwnSessionOnly ==
  [][(step'.op = "AutoStopTimer" /\ ~isRecording)
     => /\ isAnimating' = isAnimating
        /\ hideUI' = hideUI
        /\ isRecording' = isRecording
        /\ showSummaryOverlay' = showSummaryOverlay]_vars

\* ------------------------------------------------------------------ C26
\* C26: the stop event of a recorder releases the stream that recorder was built
\* on and no other: afterwards that stream is not live, every other stream is
\* as live as before, and mediaStreamRef is cleared only if it named that stream.
C26_StopEventReleasesOwnStream ==
  [][step'.op = "RecorderStopEvent"
     => \E r \in Sessions :
           /\ recorders[r].stopQueued /\ ~recorders'[r].stopQueued
           /\ ~streams'[recorders[r].stream].live
           /\ \A s \in Sessions \ {recorders[r].stream} :
                 streams'[s].live = streams[s].live
           /\ mediaStreamRef' = IF mediaStreamRef = recorders[r].stream
                                THEN NULL ELSE mediaStreamRef]_vars

\* ------------------------------------------------------------------ C27
\* C27: whenever isAnimating is true the list holds at least 2 waypoints.
C27_AnimatingHasTwoWaypoints == isAnimating => Len(locations) >= 2

\* ------------------------------------------------------------------ C28
\* C28: a step other than a frame that leaves isAnimating true leaves the
\* engine's segment index and cumulative distance as they are, and while
\* isAnimating is true traveledDistance is the engine's cumulative distance in
\* kilometres, capped at totalDistance.
C28_PlaybackSessionNotRestarted ==
  /\ [][(isAnimating /\ isAnimating' /\ step'.op # "Frame")
        => /\ plane'.currentSegmentIndexRef = plane.currentSegmentIndexRef
           /\ plane'.cumulativeDistanceRef = plane.cumulativeDistanceRef]_vars
  /\ [](isAnimating
          => traveledDistance = Min(plane.cumulativeDistanceRef \div 1000, totalDistance))

\* ------------------------------------------------------------------ C29
\* C29: whenever the summary overlay is shown the chrome is hidden.
C29_SummaryOnlyWithHiddenChrome == showSummaryOverlay => hideUI

\* ------------------------------------------------------------------ C30
\* C30: while recording, a tap on the summary overlay changes none of
\* isAnimating, hideUI, showSummaryOverlay and isRecording, and the overlay and
\* the hidden chrome are ended by the stop sequence only (the timer, the stop
\* button, the end of the share); without a recording a tap on the overlay of
\* the fullscreen view restores the chrome and returns to idle.
C30_ExitByMode ==
  /\ [][(step'.op = "OverlayClick" /\ isRecording)
        => /\ isAnimating' = isAnimating
           /\ hideUI' = hideUI
           /\ showSummaryOverlay' = showSummaryOverlay
           /\ isRecording' = isRecording]_vars
  /\ [][(isRecording /\ showSummaryOverlay /\ hideUI
           /\ (~showSummaryOverlay' \/ ~hideUI'))
        => step'.op \in {"AutoStopTimer", "StopButton", "TrackEnded"}]_vars
  /\ [][(step'.op = "OverlayClick" /\ ~isRecording /\ hideUI)
        => ~hideUI' /\ ~isAnimating' /\ ~showSummaryOverlay']_vars

\* ------------------------------------------------------------------ C31
\* The zoom controls on the map.
ZoomControls == (IF zoom.attached THEN 1 ELSE 0) + zoom.added

\* C31: after the stop sequence, the catch block of the capture setup or the
\* exit of the fullscreen view has run, the map carries exactly one zoom control.
C31_OneZoomControlAfterExit ==
  (\/ step.op \in {"StopButton", "AutoStopTimer", "TrackEnded", "ExitButtonClick"}
   \/ step.op \in {"StreamRejected", "PrerollDone"} /\ step.err # "none"
   \/ step.op = "OverlayClick" /\ ~hideUI)
  => ZoomControls = 1

\* ------------------------------------------------------------------ C32
\* C32: at most one frame request is outstanding, and it is the one
\* animationFrameIdRef names; the frame callback that finds the path completed
\* leaves no request outstanding.
C32_OneFrameRequestOutstanding ==
  /\ [](Cardinality(pendingFrames) <= 1)
  /\ [](pendingFrames # {} => pendingFrames = {plane.animationFrameIdRef})
  /\ [][(step'.op = "Frame" /\ AtEndOfPath) => pendingFrames' = {}]_vars

\* A playback with a frame outstanding was restarted by the grant of the
\* screen share: one request is outstanding afterwards.
C32_RestartedWithFramePending ==
  /\ step.op = "StreamGranted" /\ step.wasAnimating /\ step.hadFrame
  /\ isAnimating /\ Cardinality(pendingFrames) = 1
  /\ plane.currentSegmentIndexRef = 0 /\ traveledDistance > 0

\* ------------------------------------------------------------------ C33
\* The frame callback has found the path completed and the coordinator has
\* ended the playback.
PlaybackCompleted == step.op = "Frame" /\ step.wasAnimating /\ ~isAnimating

\* C33: a playback that is left alone starts at segment 0, moves on by at most
\* one segment per frame, is ended by a frame only when the index has passed the
\* last segment, and is always ended eventually.
C33_PlaybackTerminates ==
  /\ [][(~isAnimating /\ isAnimating') => plane'.currentSegmentIndexRef = 0]_vars
  /\ [][(step'.op = "Frame" /\ isAnimating')
        => plane'.currentSegmentIndexRef \in
             {plane.currentSegmentIndexRef, plane.currentSegmentIndexRef + 1}]_vars
  /\ [][(isAnimating /\ ~isAnimating')
        => plane.currentSegmentIndexRef = Len(locations) - 1]_vars
  /\ (isAnimating ~> PlaybackCompleted)

\* A frame came after the first segment's time had run out, on a path of two
\* segments: the engine is in the second segment.
C33_LateFrameEntersNextSegment ==
  /\ step.op = "Frame" /\ step.late
  /\ Len(locations) = 3 /\ isAnimating
  /\ plane.currentSegmentIndexRef = 1

\* ------------------------------------------------------------------ C34
\* segmentCount: the segments of the path.
SegmentCount == IF Len(locations) >= 2 THEN Len(locations) - 1 ELSE 0

\* C34, as stated: while the marker is on the map the segment index lies in
\* [0, segmentCount - 1].
C34_SegmentIndexBelowCount ==
  plane.planeMarkerRef # NULL
    => plane.currentSegmentIndexRef \in 0..(SegmentCount - 1)

\* C34: the segment index lies in [0, segmentCount], and a frame that moves the
\* marker finds it in [0, segmentCount - 1].
C34_SegmentIndexInRange ==
  /\ [](plane.currentSegmentIndexRef \in 0..SegmentCount)
  /\ [][(step'.op = "Frame" /\ step'.progress # NULL)
        => plane.currentSegmentIndexRef \in 0..(SegmentCount - 1)]_vars

\* The last segment has been closed in a capture session and the completion
\* frame has run: the index stays at segmentCount while the marker stays.
C34_IndexAtSegmentCount ==
  /\ plane.planeMarkerRef # NULL /\ isAnimating /\ isRecording
  /\ endCalls = 1
  /\ plane.currentSegmentIndexRef = SegmentCount /\ SegmentCount = 2

\* ------------------------------------------------------------------ C35
\* C35: traveledDistance lies between 0 and totalDistance; a frame changes it
\* only by adding a positive increment, capped at the total; it decreases only
\* by a reset to 0 that comes with the start or the end of an engine session;
\* every change of the waypoint list resets it to 0.
C35_TraveledWithinTotal ==
  /\ [](0 <= traveledDistance /\ traveledDistance <= totalDistance)
  /\ [][(step'.op = "Frame" /\ traveledDistance' # traveledDistance)
        => /\ plane'.cumulativeDistanceRef > plane.cumulativeDistanceRef
           /\ traveledDistance' > traveledDistance]_vars
  /\ [][traveledDistance' < traveledDistance
        => traveledDistance' = 0 /\ plane'.cumulativeDistanceRef = 0]_vars
  /\ [][locations' # locations => traveledDistance' = 0]_vars

\* ------------------------------------------------------------------ C36
\* C36: the first frame of a segment finds the marker on the segment's first
\* waypoint and calls fitBounds with the two endpoints of that segment; the
\* other frames of a segment call none; the frame that finds the path
\* completed calls fitBounds with all waypoints.
C36_ViewportFollowsSegments ==
  /\ [][(step'.op = "Frame" /\ step'.progress # NULL)
        => IF plane.segmentStartTimeRef = NULL
           THEN /\ plane.planeMarkerRef = LatLng(locations[plane.currentSegmentIndexRef + 1])
                /\ step'.fit = {LatLng(locations[plane.currentSegmentIndexRef + 1]),
                                LatLng(locations[plane.currentSegmentIndexRef + 2])}
           ELSE step'.fit = {}]_vars
  /\ [][(step'.op = "Frame" /\ AtEndOfPath)
        => step'.fit = {LatLng(l) : l \in Ids(locations)}]_vars

\* The first frame of the second segment of a path of three waypoints has run.
C36_SecondSegmentFramed ==
  /\ step.op = "Frame" /\ step.progress = 0
  /\ Len(locations) = 3 /\ plane.currentSegmentIndexRef = 1
  /\ step.fit = {LatLng(locations[2]), LatLng(locations[3])}

\* ------------------------------------------------------------------ C37
\* The last waypoint of the path.
FinalWaypoint == LatLng(locations[Len(locations)])

\* C37, as stated: the frame that finds the path completed leaves no frame
\* request, leaves traveledDistance as it is and leaves the marker on the map at
\* the last waypoint.
C37_CompletionLeavesMarker ==
  [][(step'.op = "Frame" /\ AtEndOfPath)
     => /\ pendingFrames' = {}
        /\ traveledDistance' = traveledDistance
        /\ plane'.planeMarkerRef = FinalWaypoint]_vars

\* C37: the frame that finds the path completed leaves no frame request and
\* leaves traveledDistance as it is; if the coordinator keeps the playback on
\* (capture session, fullscreen view) the marker and the cumulative distance
\* stay, with the marker on the last waypoint, for as long as that engine
\* session lasts.
C37_CompletionFreezesSession ==
  /\ [][(step'.op = "Frame" /\ AtEndOfPath)
        => /\ pendingFrames' = {}
           /\ traveledDistance' = traveledDistance
           /\ isAnimating'
                => /\ plane'.planeMarkerRef = FinalWaypoint
                   /\ plane'.cumulativeDistanceRef = plane.cumulativeDistanceRef]_vars
  /\ [](endCalls = 1 => pendingFrames = {} /\ plane.planeMarkerRef = FinalWaypoint)

\* The fullscreen view of a path of three waypoints has completed: the marker
\* stands on the last waypoint under the summary.
C37_MarkerRestsInFullscreen ==
  /\ endCalls = 1 /\ hideUI /\ ~isRecording /\ showSummaryOverlay
  /\ Len(locations) = 3
  /\ plane.planeMarkerRef = FinalWaypoint

\* ------------------------------------------------------------------ C38
\* C38: while a marker is on the map a playback is on (isAnimating, at least 2
\* waypoints) and no interaction mode is enabled; whenever a step other than
\* a frame callback leaves a marker on the map after running the effect, the
\* segment index and the cumulative distance are 0 and the marker stands on
\* the first waypoint.
C38_MarkerOnlyDuringPlayback ==
  /\ [](plane.planeMarkerRef # NULL
          => isAnimating /\ Len(locations) >= 2 /\ enabledModes = {})
  /\ [][(step'.op # "Frame" /\ plane' # plane /\ plane'.planeMarkerRef # NULL)
        => /\ plane'.currentSegmentIndexRef = 0
           /\ plane'.cumulativeDistanceRef = 0
           /\ plane'.planeMarkerRef = LatLng(locations'[1])]_vars

\* View Path has started a playback over three waypoints on a map with all its
\* modes on: the marker stands on the first waypoint and every mode is off.
C38_PlaybackStartedFromPanel ==
  /\ step.op = "startAnimation" /\ ~step.wasAnimating
  /\ Len(locations) = 3
  /\ plane.planeMarkerRef = LatLng(locations[1])
  /\ plane.originalMapState = InteractionModes /\ enabledModes = {}

====
